---- MODULE Spec2Model ----
(***************************************************************************)
(* Field boundary comparison and area calculator (src/main.py).            *)
(*                                                                         *)
(* The plane is a row of cells 1, 2, 3, west to east.  A polygon covers a  *)
(* set of cells and carries a number of interior rings.  A set of cells    *)
(* that is not one run of consecutive cells stands for a ring that crosses *)
(* itself: its lobes are the runs.  Areas are integers: square metres in   *)
(* area_m2, hundredths of an acre in area_acres.                           *)
(*                                                                         *)
(* Streamlit runs the script from the top on every interaction: a run      *)
(* rebuilds the frames from the uploaded files, and what survives a run is *)
(* the widgets' state.                                                     *)
(***************************************************************************)
EXTENDS Integers, Sequences, FiniteSets, TLC

\* ------------------------------------------------------------------ bounds
MaxFiles == 3
MaxRuns == 2

\* --------------------------------------------------------------- constants
\* ACRES_PER_SQ_METER = 0.000247105, as a number of 1e-9 acres per m2
ACRES_PER_SQ_METER == 247105

VARIABLES
    uploaded_files,   \* the uploader's files, in upload order
    avail,            \* EPSG codes the installed CRS database defines
    use_spherical,    \* toggle "Use spherical area calculation"
    use_acres,        \* toggle "Show area in Acres"
    show_diff,        \* checkbox "Show boundary differences"
    layer_visibility, \* checkbox "Show layer", per source
    vis_off,          \* data_editor state: <<source, row>> cells unchecked in "Visible"
    holes_edit,       \* data_editor state: <<source, row>> cells retyped in "Holes"
    pc,               \* position of the script
    file_idx,         \* loop index of process_uploaded_files / of the table loop
    gdfs,             \* the datasets loaded in this run
    events,           \* what this run did, in order
    layers,           \* the layers added to the map in this run
    only_in_1,        \* Difference(1st, 2nd) of this run
    only_in_2,        \* Difference(2nd, 1st) of this run
    totals,           \* the totals line of each area table of this run
    runs,             \* number of script runs of the session
    geometry,         \* the argument of the geometry functions
    measured          \* their results

vars == <<uploaded_files, avail, use_spherical, use_acres, show_diff,
          layer_visibility, vis_off, holes_edit, pc, file_idx, gdfs, events,
          layers, only_in_1, only_in_2, totals, runs, geometry, measured>>

\* ---------------------------------------------------------------- geometry
Polygon(cells, holes) ==
    [type |-> "Polygon", cells |-> cells, holes |-> holes, geoms |-> <<>>]

MultiPolygon(polys) ==
    [type |-> "MultiPolygon", cells |-> {}, holes |-> 0, geoms |-> polys]

GeometryCollection(members) ==
    [type |-> "GeometryCollection", cells |-> {}, holes |-> 0, geoms |-> members]

LineString == [type |-> "LineString", cells |-> {}, holes |-> 0, geoms |-> <<>>]

Point == [type |-> "Point", cells |-> {}, holes |-> 0, geoms |-> <<>>]

RECURSIVE SumSeq(_)
SumSeq(s) == IF s = <<>> THEN 0 ELSE Head(s) + SumSeq(Tail(s))

\* geod.geometry_area_perimeter(polygon)[0]: the exterior ring's area less the
\* interior rings', signed by the ring's orientation (here: positive)
RingArea(poly) ==
    LET a == 100 * Cardinality(poly.cells) - 10 * poly.holes
    IN  IF a < 0 THEN 0 ELSE a

Abs(x) == IF x < 0 THEN -x ELSE x

geodetic_area_poly(poly) == Abs(RingArea(poly))

geodetic_area(g) ==
    IF g.type = "Polygon" THEN geodetic_area_poly(g)
    ELSE IF g.type = "MultiPolygon" THEN SumSeq([i \in 1..Len(g.geoms) |-> geodetic_area_poly(g.geoms[i])])
    ELSE 0

count_parts(g) ==
    IF g.type = "Polygon" THEN 1
    ELSE IF g.type = "MultiPolygon"
    THEN Cardinality({i \in 1..Len(g.geoms) : g.geoms[i].type = "Polygon"})
    ELSE IF g.type = "GeometryCollection"
    THEN Cardinality({i \in 1..Len(g.geoms) :
                         g.geoms[i].type \in {"Polygon", "MultiPolygon"}})
    ELSE 0

count_holes_poly(poly) == poly.holes

RECURSIVE count_holes(_), SumHoles(_)
count_holes(g) ==
    IF g.type = "Polygon" THEN g.holes
    ELSE IF g.type = "MultiPolygon" THEN SumSeq([i \in 1..Len(g.geoms) |-> count_holes_poly(g.geoms[i])])
    ELSE IF g.type = "GeometryCollection" THEN SumHoles(g.geoms)
    ELSE 0

SumHoles(s) == IF s = <<>> THEN 0 ELSE count_holes(Head(s)) + SumHoles(Tail(s))

get_poly_type(g) ==
    IF g.type = "Polygon" THEN "polygon"
    ELSE IF g.type = "MultiPolygon" THEN "multipolygon"
    ELSE IF g.type = "GeometryCollection" THEN "geom collection"
    ELSE "unknown"

\* ------------------------------------------------------ repair and algebra
Min(S) == CHOOSE x \in S : \A y \in S : x <= y

\* the run of consecutive cells of S that c lies in
RunOf(c, S) ==
    {d \in S : \A e \in (IF c <= d THEN c..d ELSE d..c) : e \in S}

Runs(S) == {RunOf(c, S) : c \in S}

RECURSIVE RunSeq(_)
RunSeq(rs) ==
    IF rs = {} THEN <<>>
    ELSE LET r == CHOOSE x \in rs : \A y \in rs : Min(x) <= Min(y)
         IN  <<r>> \o RunSeq(rs \ {r})

RECURSIVE CellsOf(_), CellsOfSeq(_)
CellsOf(g) ==
    IF g.type = "Polygon" THEN g.cells ELSE CellsOfSeq(g.geoms)

CellsOfSeq(s) == IF s = <<>> THEN {} ELSE CellsOf(Head(s)) \cup CellsOfSeq(Tail(s))

\* the polygonal geometry that covers S: empty, one polygon, or one per run
Region(S, holes) ==
    LET rs == RunSeq(Runs(S))
    IN  IF Len(rs) <= 1 THEN Polygon(S, IF S = {} THEN 0 ELSE holes)
        ELSE MultiPolygon([i \in 1..Len(rs) |->
                              Polygon(rs[i], IF i = 1 THEN holes ELSE 0)])

\* make_valid(geom).buffer(0)
make_valid_buffer0(g) == Region(CellsOf(g), count_holes(g))

is_empty(g) == CellsOf(g) = {}

\* unary_union of a column of geometries
unary_union(gs) == Region(CellsOfSeq(gs), 0)

difference(a, b) == Region(CellsOf(a) \ CellsOf(b), 0)

\* gdf.explode(index_parts=False, ignore_index=True): one row per part
RECURSIVE explode(_)
explode(gs) ==
    IF gs = <<>> THEN <<>>
    ELSE (IF Head(gs).type = "Polygon" THEN <<Head(gs)>> ELSE Head(gs).geoms)
         \o explode(Tail(gs))

\* ------------------------------------------------------------------ reading
\* read_vector_file: the reader the extension selects, or ValueError
read_vector_file(file) ==
    IF file.ext = ".zip" THEN (IF file.inner THEN "ok" ELSE "ValueError")
    ELSE IF file.ext = ".kmz" THEN (IF file.inner THEN "ok" ELSE "ValueError")
    ELSE IF file.ext = ".kml" THEN "ok"
    ELSE IF file.ext \in {".geojson", ".json"} THEN "ok"
    ELSE "ValueError"

\* ------------------------------------------------------------ planar areas
Ev(f, op, arg, res) == [file |-> f, op |-> op, arg |-> arg, res |-> res]

\* gdf.to_crs(epsg=...): a frame without a CRS cannot be transformed at all,
\* a code the database does not define raises CRSError
to_crs(crs, epsg) ==
    IF crs = "none" THEN "ValueError"
    ELSE IF epsg \in avail THEN "ok"
    ELSE "CRSError"

W5070 == "EPSG:6933 not available. Using EPSG:5070."

W3857 == "EPSG:5070 also unavailable. Falling back to EPSG:3857."

E3857 == "Failed to reproject to EPSG:3857. Cannot calculate planar area."

\* the last candidate tried without a word
NoFallbackWarning(f) == <<>>

\* st.warning(...) before the last candidate is tried
FallbackWarning(f) == <<Ev(f, "warning", W3857, "")>>

\* the nested try blocks of get_gdf_projection over the candidates c1, c2, c3:
\* [proj: the CRS of the returned frame or "None", raised: an exception other
\* than CRSError left the function, ev: what it did]
Chain(f, crs, c1, c2, c3) ==
    LET r1 == to_crs(crs, c1)
        r2 == to_crs(crs, c2)
        r3 == to_crs(crs, c3)
        t1 == <<Ev(f, "to_crs", c1, r1)>>
        t2 == t1 \o <<Ev(f, "to_crs", c2, r2)>>
        t3 == t2 \o FallbackWarning(f) \o <<Ev(f, "to_crs", c3, r3)>>
    IN  IF r1 = "ok" THEN [proj |-> c1, raised |-> FALSE, ev |-> t1]
        ELSE IF r1 # "CRSError" THEN [proj |-> "None", raised |-> TRUE, ev |-> t1]
        ELSE IF r2 = "ok"
        THEN [proj |-> c2, raised |-> FALSE,
              ev |-> t2 \o <<Ev(f, "warning", W5070, "")>>]
        ELSE IF r2 # "CRSError" THEN [proj |-> "None", raised |-> TRUE, ev |-> t2]
        ELSE IF r3 = "ok" THEN [proj |-> c3, raised |-> FALSE, ev |-> t3]
        ELSE IF r3 # "CRSError" THEN [proj |-> "None", raised |-> TRUE, ev |-> t3]
        ELSE [proj |-> "None", raised |-> FALSE,
              ev |-> t3 \o <<Ev(f, "error", E3857, "")>>]

\* the last resort tried before the continental projection
get_gdf_projection_swapped(f, crs) ==
    Chain(f, crs, "EPSG:6933", "EPSG:3857", "EPSG:5070")

get_gdf_projection(f, crs) == Chain(f, crs, "EPSG:6933", "EPSG:5070", "EPSG:3857")

\* gdf_proj.area of one row: the shoelace area in the projected plane; Web
\* Mercator is not equal-area (it stretches both axes by sec(latitude), 2 at
\* the 60th parallel)
planar_area(g, proj) ==
    (IF proj = "EPSG:3857" THEN 4 ELSE 1) *
    (IF g.type = "Polygon" THEN RingArea(g)
     ELSE SumSeq([i \in 1..Len(g.geoms) |-> RingArea(g.geoms[i])]))

\* (area_m2 * ACRES_PER_SQ_METER).round(2), in hundredths of an acre
area_acres(m2) == (m2 * ACRES_PER_SQ_METER + 5000000) \div 10000000

\* ----------------------------------------------------------------- loading
\* the flag taken from the table's state instead of set to True
RowFromEditor(f, i, g, m2) ==
    [geometry |-> g, source |-> f, area_m2 |-> m2, area_acres |-> area_acres(m2),
     poly_id |-> <<f, i>>, enabled |-> <<f, i>> \notin vis_off,
     poly_type |-> get_poly_type(g), parts |-> count_parts(g),
     holes |-> count_holes(g)]

Row(f, i, g, m2) ==
    [geometry |-> g, source |-> f, area_m2 |-> m2, area_acres |-> area_acres(m2),
     poly_id |-> <<f, i>>, enabled |-> TRUE, poly_type |-> get_poly_type(g),
     parts |-> count_parts(g), holes |-> count_holes(g)]

NoRows == <<>>

\* one iteration of the loop of process_uploaded_files on file number f:
\* [outcome: "appended" | "continue" | "except", rows: the frame, ev]
ProcessFile(f, file) ==
    LET failed == <<Ev(f, "error", "Failed to load", "")>>
        raw    == explode(file.geoms)
        clean  == [i \in 1..Len(raw) |-> make_valid_buffer0(raw[i])]
        p      == get_gdf_projection(f, file.crs)
    IN  IF read_vector_file(file) # "ok" \/ file.broken
        THEN [outcome |-> "except", rows |-> NoRows, ev |-> failed]
        ELSE IF use_spherical
        THEN [outcome |-> "appended",
              rows |-> [i \in 1..Len(clean) |->
                           Row(f, i, clean[i], geodetic_area(clean[i]))],
              ev |-> <<Ev(f, "area", "geodetic", "")>>]
        ELSE IF p.raised
        THEN [outcome |-> "except", rows |-> NoRows, ev |-> p.ev \o failed]
        ELSE IF p.proj = "None"
        THEN [outcome |-> "continue", rows |-> NoRows, ev |-> p.ev]
        ELSE [outcome |-> "appended",
              rows |-> [i \in 1..Len(clean) |->
                           Row(f, i, clean[i], planar_area(clean[i], p.proj))],
              ev |-> p.ev \o <<Ev(f, "area", p.proj, "")>>]

\* the try block around the loop instead of inside it
AfterFileAbort(f, outcome) ==
    IF outcome = "except" THEN Len(uploaded_files) + 1 ELSE f + 1

\* the loop goes on with the next file whatever the iteration's outcome
AfterFile(f, outcome) == f + 1

\* for file_idx, file in enumerate(uploaded_files): ...
ProcessNext ==
    /\ pc = "process"
    /\ file_idx <= Len(uploaded_files)
    /\ LET r == ProcessFile(file_idx, uploaded_files[file_idx])
       IN  /\ gdfs' = IF r.outcome = "appended" THEN Append(gdfs, r.rows) ELSE gdfs
           /\ events' = events \o r.ev
           /\ file_idx' = AfterFile(file_idx, r.outcome)
    /\ UNCHANGED <<uploaded_files, avail, use_spherical, use_acres, show_diff,
                   layer_visibility, vis_off, holes_edit, pc, layers, only_in_1,
                   only_in_2, totals, runs, geometry, measured>>

\* return gdfs, color_legend
ProcessReturn ==
    /\ pc = "process"
    /\ file_idx > Len(uploaded_files)
    /\ pc' = "loaded"
    /\ UNCHANGED <<uploaded_files, avail, use_spherical, use_acres, show_diff,
                   layer_visibility, vis_off, holes_edit, file_idx, gdfs, events,
                   layers, only_in_1, only_in_2, totals, runs, geometry, measured>>

\* --------------------------------------------------------------- rendering
Layer(name, id) == [name |-> name, id |-> id]

NoRegion == Polygon({}, 0)

Sources == {gdfs[k][1].source : k \in 1..Len(gdfs)}

RunUnchanged ==
    UNCHANGED <<uploaded_files, avail, use_spherical, use_acres, show_diff,
                layer_visibility, vis_off, holes_edit, runs, geometry, measured>>

\* render_ui up to the call of process_uploaded_files
RenderStart ==
    /\ pc = "start"
    /\ gdfs' = <<>>
    /\ layers' = <<>>
    /\ only_in_1' = NoRegion
    /\ only_in_2' = NoRegion
    /\ totals' = <<>>
    /\ file_idx' = 1
    /\ IF uploaded_files = <<>>
       THEN /\ events' = <<Ev(0, "info", "Upload 1 or 2 files", "")>>
            /\ pc' = "done"
       ELSE /\ events' = <<>>
            /\ pc' = "process"
    /\ RunUnchanged

RECURSIVE RowLayers(_, _)
\* the loop of add_layer_for_gdf over the rows of one frame
RowLayers(rows, i) ==
    IF i > Len(rows) THEN [lay |-> <<>>, ev |-> <<>>]
    ELSE LET rest == RowLayers(rows, i + 1)
         IN  IF ~rows[i].enabled
             THEN [lay |-> rest.lay,
                   ev |-> <<Ev(rows[i].source, "skip", "enabled", "")>> \o rest.ev]
             ELSE [lay |-> <<Layer("poly", rows[i].poly_id)>> \o rest.lay,
                   ev |-> rest.ev]

add_layer_for_gdf(rows) ==
    IF ~layer_visibility[rows[1].source] THEN [lay |-> <<>>, ev |-> <<>>]
    ELSE RowLayers(rows, 1)

RECURSIVE add_layers(_, _)
add_layers(fs, k) ==
    IF k > Len(fs) THEN [lay |-> <<>>, ev |-> <<>>]
    ELSE LET one  == add_layer_for_gdf(fs[k])
             rest == add_layers(fs, k + 1)
         IN  [lay |-> one.lay \o rest.lay, ev |-> one.ev \o rest.ev]

\* set_map_bounds: the bounding box of all frames, when there is one
set_map_bounds(fs) ==
    IF fs = <<>> THEN <<>> ELSE <<Layer("Bounding Box", <<0, 0>>)>>

\* render_ui from the map's creation to add_layers
AddLayers ==
    /\ pc = "loaded"
    /\ LET a == add_layers(gdfs, 1)
       IN  /\ layers' = set_map_bounds(gdfs) \o a.lay
           /\ events' = events \o a.ev
    /\ pc' = "layered"
    /\ UNCHANGED <<file_idx, gdfs, only_in_1, only_in_2, totals>>
    /\ RunUnchanged

\* the comparison offered for any two or more frames
TwoOrMoreDatasets(n) == n >= 2

\* if len(gdfs) == 2
TwoDatasets(n) == n = 2

\* gdf.geometry.apply(lambda g: make_valid(g).buffer(0))
Repaired(rows) == [i \in 1..Len(rows) |-> make_valid_buffer0(rows[i].geometry)]

\* the emptiness test left out
safe_add_diff_unchecked(g, label) ==
    IF g.type \in {"Polygon", "MultiPolygon"}
    THEN <<Layer(label, <<0, 0>>)>>
    ELSE <<>>

\* safe_add_diff: the layer it adds, if any
safe_add_diff(g, label) ==
    IF ~is_empty(g) /\ g.type \in {"Polygon", "MultiPolygon"}
    THEN <<Layer(label, <<0, 0>>)>>
    ELSE <<>>

\* display_boundary_difference, for the two frames and a ticked checkbox
BoundaryDifference ==
    /\ pc = "layered"
    /\ TwoDatasets(Len(gdfs))
    /\ show_diff
    /\ LET poly1 == make_valid_buffer0(unary_union(Repaired(gdfs[1])))
           poly2 == make_valid_buffer0(unary_union(Repaired(gdfs[2])))
           d1 == difference(poly1, poly2)
           d2 == difference(poly2, poly1)
       IN  /\ only_in_1' = d1
           /\ only_in_2' = d2
           /\ layers' = layers \o safe_add_diff(d1, "Only in 1st")
                               \o safe_add_diff(d2, "Only in 2nd")
    /\ events' = events \o <<Ev(0, "difference", "", "")>>
    /\ pc' = "tables"
    /\ file_idx' = 1
    /\ UNCHANGED <<gdfs, totals>>
    /\ RunUnchanged

\* no comparison: another number of frames, or the checkbox unticked
NoDifference ==
    /\ pc = "layered"
    /\ ~(TwoDatasets(Len(gdfs)) /\ show_diff)
    /\ pc' = "tables"
    /\ file_idx' = 1
    /\ UNCHANGED <<gdfs, events, layers, only_in_1, only_in_2, totals>>
    /\ RunUnchanged

\* ------------------------------------------------------------------ tables
\* st.data_editor: the table with the user's edits of this session on it
edited_df(rows, unit) ==
    [i \in 1..Len(rows) |->
        [ID      |-> rows[i].poly_id,
         Type    |-> rows[i].poly_type,
         Parts   |-> rows[i].parts,
         Holes   |-> IF rows[i].poly_id \in holes_edit
                     THEN rows[i].holes + 1 ELSE rows[i].holes,
         Area    |-> IF unit = "area_acres" THEN rows[i].area_acres
                     ELSE rows[i].area_m2,
         Visible |-> IF rows[i].poly_id \in vis_off
                     THEN FALSE ELSE rows[i].enabled]]

\* visible_df[column].sum()
VisibleSum(tab, col) ==
    SumSeq([i \in 1..Len(tab) |-> IF tab[i].Visible THEN tab[i][col] ELSE 0])

\* the totals line under the table
TotalsLine(src, tab) ==
    [source |-> src, area |-> VisibleSum(tab, "Area"),
     parts |-> VisibleSum(tab, "Parts"), holes |-> VisibleSum(tab, "Holes")]

\* display_area_table for frame number file_idx
DisplayAreaTable ==
    /\ pc = "tables"
    /\ file_idx <= Len(gdfs)
    /\ LET rows == gdfs[file_idx]
           tab  == edited_df(rows, IF use_acres THEN "area_acres" ELSE "area_m2")
       IN  /\ gdfs' = [gdfs EXCEPT ![file_idx] =
                         [i \in 1..Len(rows) |->
                             [rows[i] EXCEPT !.enabled = tab[i].Visible]]]
           /\ totals' = Append(totals, TotalsLine(rows[1].source, tab))
    /\ file_idx' = file_idx + 1
    /\ UNCHANGED <<pc, events, layers, only_in_1, only_in_2>>
    /\ RunUnchanged

\* the end of render_ui: the side-by-side table for two frames
RenderEnd ==
    /\ pc = "tables"
    /\ file_idx > Len(gdfs)
    /\ events' = IF TwoDatasets(Len(gdfs))
                 THEN events \o <<Ev(0, "comparison_table", "", "")>> ELSE events
    /\ pc' = "done"
    /\ UNCHANGED <<file_idx, gdfs, layers, only_in_1, only_in_2, totals>>
    /\ RunUnchanged

\* ---------------------------------------------------------------- the user
Shown == UNION {{gdfs[k][i].poly_id : i \in 1..Len(gdfs[k])} : k \in 1..Len(gdfs)}

Rerun ==
    /\ pc = "done"
    /\ runs < MaxRuns
    /\ runs' = runs + 1
    /\ pc' = "start"
    /\ UNCHANGED <<uploaded_files, avail, use_spherical, use_acres, file_idx,
                   gdfs, events, layers, only_in_1, only_in_2, totals,
                   geometry, measured>>

\* a click on a "Visible" checkbox of an area table
ToggleVisible ==
    /\ Rerun
    /\ \E id \in Shown :
          vis_off' = IF id \in vis_off THEN vis_off \ {id} ELSE vis_off \cup {id}
    /\ UNCHANGED <<show_diff, layer_visibility, holes_edit>>

\* a "Holes" cell of an area table retyped, or the edit undone
EditHoles ==
    /\ Rerun
    /\ \E id \in Shown :
          holes_edit' = IF id \in holes_edit THEN holes_edit \ {id}
                        ELSE holes_edit \cup {id}
    /\ UNCHANGED <<show_diff, layer_visibility, vis_off>>

\* a click on "Show boundary differences", shown for two frames
ToggleShowDiff ==
    /\ Rerun
    /\ TwoDatasets(Len(gdfs))
    /\ show_diff' = ~show_diff
    /\ UNCHANGED <<layer_visibility, vis_off, holes_edit>>

\* a click on a "Show layer" checkbox
ToggleLayer ==
    /\ Rerun
    /\ \E src \in Sources :
          layer_visibility' = [layer_visibility EXCEPT ![src] = ~layer_visibility[src]]
    /\ UNCHANGED <<show_diff, vis_off, holes_edit>>

\* -------------------------------------------------------------- the inputs
File(ext, inner, crs, broken, geoms) ==
    [ext |-> ext, inner |-> inner, crs |-> crs, broken |-> broken, geoms |-> geoms]

Candidates == {"EPSG:6933", "EPSG:5070", "EPSG:3857"}

SeqsUpTo(S, lo, hi) == UNION {[1..n -> S] : n \in lo..hi}

OneField == <<Polygon({1}, 0)>>

\* files of every kind the reader tells apart, each with the same one field:
\* a shapefile archive with or without a .prj, archives without the inner
\* file, a frame the repair raises on, an extension no reader takes
LoadMenu ==
    {File(".zip", TRUE, "EPSG:4326", FALSE, OneField),
     File(".zip", TRUE, "none", FALSE, OneField),
     File(".zip", FALSE, "EPSG:4326", FALSE, OneField),
     File(".kmz", TRUE, "EPSG:4326", FALSE, OneField),
     File(".kmz", FALSE, "EPSG:4326", FALSE, OneField),
     File(".kml", TRUE, "EPSG:4326", FALSE, OneField),
     File(".geojson", TRUE, "EPSG:4326", TRUE, OneField),
     File(".txt", TRUE, "EPSG:4326", FALSE, OneField)}

RECURSIVE CellFields(_)
\* one single-cell field per cell of S, west to east
CellFields(S) ==
    IF S = {} THEN <<>>
    ELSE <<Polygon({Min(S)}, 0)>> \o CellFields(S \ {Min(S)})

\* GeoJSON files of single-cell fields, and an archive without a shapefile
UIMenu ==
    {File(".geojson", TRUE, "EPSG:4326", FALSE, CellFields(S)) :
        S \in {{1}, {2}, {1, 2}, {1, 2, 3}}}
    \cup {File(".zip", FALSE, "EPSG:4326", FALSE, OneField)}

\* GeoJSON files of one or two fields with interior rings; a field of two
\* cells that do not touch is a ring that crosses itself
TableMenu ==
    {File(".geojson", TRUE, "EPSG:4326", FALSE, <<Polygon(S, h)>>) :
        S \in {{1}, {1, 2}, {1, 3}}, h \in 0..1}
    \cup {File(".geojson", TRUE, "EPSG:4326", FALSE,
               <<Polygon({1}, h1), Polygon({2}, h2)>>) : h1 \in 0..1, h2 \in 0..1}

Polys == {Polygon(S, h) : S \in {{1}, {2}, {1, 2}}, h \in 0..1}

\* the geometries the geometry functions are applied to
GeomUniverse ==
    Polys
    \cup {MultiPolygon(ps) : ps \in SeqsUpTo(Polys, 1, 2)}
    \cup {GeometryCollection(ms) :
             ms \in SeqsUpTo({Polygon({1}, 0), Polygon({1, 2}, 1), LineString, Point,
                              MultiPolygon(<<Polygon({1}, 0), Polygon({2}, 1)>>)}, 0, 2)}

NotMeasured == [done |-> FALSE, area |-> 0, parts |-> 0, holes |-> 0, kind |-> ""]

\* the widgets' default values, an empty run
Defaults ==
    /\ show_diff = TRUE
    /\ layer_visibility = [f \in 1..MaxFiles |-> TRUE]
    /\ vis_off = {}
    /\ holes_edit = {}
    /\ gdfs = <<>>
    /\ events = <<>>
    /\ layers = <<>>
    /\ only_in_1 = NoRegion
    /\ only_in_2 = NoRegion
    /\ totals = <<>>
    /\ file_idx = 1
    /\ runs = 1

\* no geometry function is under test
NoGeometry ==
    /\ geometry = Point
    /\ measured = NotMeasured

\* ------------------------------------------------------ the session (Spec)
\* Up to MaxFiles uploads, every widget at its default (both toggles on), a
\* database that defines the three candidates.  The user ticks and unticks
\* boxes; each click reruns the script, MaxRuns runs in all.
Init ==
    /\ uploaded_files \in SeqsUpTo(UIMenu, 0, MaxFiles)
    /\ avail = Candidates
    /\ use_spherical = TRUE
    /\ use_acres = TRUE
    /\ pc = "start"
    /\ Defaults
    /\ NoGeometry

Run ==
    \/ RenderStart
    \/ ProcessNext
    \/ ProcessReturn
    \/ AddLayers
    \/ BoundaryDifference
    \/ NoDifference
    \/ DisplayAreaTable
    \/ RenderEnd

Next ==
    \/ Run
    \/ ToggleVisible
    \/ ToggleShowDiff
    \/ ToggleLayer

Spec == Init /\ [][Next]_vars

\* ------------------------------- the session with every cell editable
\* One or two uploads of fields with interior rings, either area model and
\* either unit; the user also retypes cells of the "Holes" column.
InitTable ==
    /\ uploaded_files \in SeqsUpTo(TableMenu, 1, 2)
    /\ avail = Candidates
    /\ use_spherical \in BOOLEAN
    /\ use_acres \in BOOLEAN
    /\ pc = "start"
    /\ Defaults
    /\ NoGeometry

NextTable ==
    \/ Run
    \/ ToggleVisible
    \/ EditHoles
    \/ ToggleShowDiff
    \/ ToggleLayer

SpecTable == InitTable /\ [][NextTable]_vars

\* ------------------------------------- process_uploaded_files (SpecLoad)
\* One call: files of every kind, either area model, any set of candidates
\* defined in the database.
InitLoad ==
    /\ uploaded_files \in SeqsUpTo(LoadMenu, 1, MaxFiles)
    /\ avail \in SUBSET Candidates
    /\ use_spherical \in BOOLEAN
    /\ use_acres = TRUE
    /\ pc = "process"
    /\ Defaults
    /\ NoGeometry

NextLoad ==
    \/ ProcessNext
    \/ ProcessReturn

SpecLoad == InitLoad /\ [][NextLoad]_vars

\* ------------------------------------- the geometry functions (SpecGeom)
InitGeom ==
    /\ uploaded_files = <<>>
    /\ avail = Candidates
    /\ use_spherical = TRUE
    /\ use_acres = TRUE
    /\ pc = "geometry"
    /\ Defaults
    /\ geometry \in GeomUniverse
    /\ measured = NotMeasured

Measure ==
    /\ pc = "geometry"
    /\ ~measured.done
    /\ measured' = [done |-> TRUE, area |-> geodetic_area(geometry),
                    parts |-> count_parts(geometry), holes |-> count_holes(geometry),
                    kind |-> get_poly_type(geometry)]
    /\ UNCHANGED <<uploaded_files, avail, use_spherical, use_acres, show_diff,
                   layer_visibility, vis_off, holes_edit, pc, file_idx, gdfs,
                   events, layers, only_in_1, only_in_2, totals, runs, geometry>>

NextGeom == Measure

SpecGeom == InitGeom /\ [][NextGeom]_vars

\* ================================================================== claims
Processed == 1..(file_idx - 1)

FileEvents(f) == SelectSeq(events, LAMBDA e : e.file = f)

Attempts(f) == SelectSeq(events, LAMBDA e : e.file = f /\ e.op = "to_crs")

LoadedSources == [k \in 1..Len(gdfs) |-> gdfs[k][1].source]

IsLoaded(f) == \E k \in 1..Len(gdfs) : gdfs[k][1].source = f

Order == <<"EPSG:6933", "EPSG:5070", "EPSG:3857">>

\* file f reaches the planar calculator with a CRS to project from
Planar(f) ==
    /\ ~use_spherical
    /\ read_vector_file(uploaded_files[f]) = "ok"
    /\ ~uploaded_files[f].broken
    /\ uploaded_files[f].crs # "none"

HasEvent(f, op, arg) ==
    \E j \in 1..Len(events) :
        events[j].file = f /\ events[j].op = op /\ events[j].arg = arg

HasOp(f, op) ==
    \E j \in 1..Len(events) : events[j].file = f /\ events[j].op = op

\* C1: the candidates are tried in the order EPSG:6933, EPSG:5070, EPSG:3857,
\* each only after every earlier one raised CRSError; the frame's areas come
\* from the first candidate the database defines; when it defines none the
\* failure is reported, no area is computed and the file is not loaded.
C1_FallbackChain ==
    \A f \in Processed :
        Planar(f) =>
            LET att == Attempts(f)
                n   == Len(att)
            IN  /\ n \in 1..3
                /\ \A i \in 1..n :
                      /\ att[i].arg = Order[i]
                      /\ att[i].res = (IF Order[i] \in avail THEN "ok" ELSE "CRSError")
                /\ \A i \in 1..(n - 1) : att[i].res = "CRSError"
                /\ IF att[n].res = "ok"
                   THEN /\ HasEvent(f, "area", Order[n])
                        /\ \E k \in 1..Len(gdfs) :
                              /\ gdfs[k][1].source = f
                              /\ \A i \in 1..Len(gdfs[k]) :
                                    gdfs[k][i].area_m2 =
                                        planar_area(gdfs[k][i].geometry, Order[n])
                   ELSE /\ n = 3
                        /\ HasEvent(f, "error", E3857)
                        /\ ~HasOp(f, "area")
                        /\ ~IsLoaded(f)

\* a file whose areas come from the third candidate, after two failures
C1_Witness ==
    \E f \in Processed :
        /\ Planar(f)
        /\ Len(Attempts(f)) = 3
        /\ Attempts(f)[3].res = "ok"
        /\ IsLoaded(f)

\* file f's own processing succeeds: it reads, repairs, and has an area
Succeeds(f) ==
    /\ read_vector_file(uploaded_files[f]) = "ok"
    /\ ~uploaded_files[f].broken
    /\ \/ use_spherical
       \/ uploaded_files[f].crs # "none" /\ avail # {}

\* C2: whatever the outcome of each file, the loop reaches every file, and the
\* frames are, in upload order, exactly the files whose own processing
\* succeeded.
C2_FailuresIsolated ==
    /\ LoadedSources =
          SelectSeq([i \in 1..(file_idx - 1) |-> i], LAMBDA i : Succeeds(i))
    /\ pc = "loaded" =>
          /\ file_idx = Len(uploaded_files) + 1
          /\ \A f \in 1..Len(uploaded_files) : FileEvents(f) # <<>>

\* three files, the second fails, the first and the third are loaded
C2_Witness ==
    /\ pc = "loaded"
    /\ Len(uploaded_files) = 3
    /\ Succeeds(1) /\ ~Succeeds(2) /\ Succeeds(3)
    /\ LoadedSources = <<1, 3>>

\* C3: a file for which every candidate of the chain failed keeps its
\* features in the output (their area unset).
C3_FeaturesKept ==
    \A f \in Processed : (Planar(f) /\ avail = {}) => IsLoaded(f)

DiffComputed == \E j \in 1..Len(events) : events[j].op = "difference"

\* the cells of the features of frame k that the user left visible
VisibleCells(k) ==
    UNION {CellsOf(gdfs[k][i].geometry) :
              i \in {j \in 1..Len(gdfs[k]) : gdfs[k][j].poly_id \notin vis_off}}

\* C4: the difference regions of a run are those of the unions of the
\* features whose visibility box is ticked when the run computes them.
C4_DifferenceOfVisible ==
    (pc \in {"tables", "done"} /\ DiffComputed) =>
        /\ CellsOf(only_in_1) = VisibleCells(1) \ VisibleCells(2)
        /\ CellsOf(only_in_2) = VisibleCells(2) \ VisibleCells(1)

\* C5 as stated: with two or more frames (and the box ticked) the comparison
\* regions are computed.
C5_TwoOrMoreCompared ==
    (pc = "done" /\ Len(gdfs) >= 2 /\ show_diff) => DiffComputed

\* C5 amended: the comparison regions are computed exactly when the run
\* loaded exactly two frames and the box is ticked.
C5_ExactlyTwoCompared ==
    pc \in {"tables", "done"} => (DiffComputed <=> (Len(gdfs) = 2 /\ show_diff))

\* three uploads, one of which fails to load: the other two are compared
C5_Witness ==
    /\ pc = "done"
    /\ Len(uploaded_files) = 3
    /\ Len(gdfs) = 2
    /\ DiffComputed
    /\ ~is_empty(only_in_1)

HasLayer(name) == \E i \in 1..Len(layers) : layers[i].name = name

Polygonal(g) == g.type \in {"Polygon", "MultiPolygon"}

\* C7: a difference region gets its layer exactly when it is a non-empty
\* polygon or multipolygon, each side on its own.
C7_EmptyRegionSkipped ==
    (pc \in {"tables", "done"} /\ DiffComputed) =>
        /\ HasLayer("Only in 1st") <=> (~is_empty(only_in_1) /\ Polygonal(only_in_1))
        /\ HasLayer("Only in 2nd") <=> (~is_empty(only_in_2) /\ Polygonal(only_in_2))

\* the first frame lies inside the second: one side empty, the other drawn
C7_Witness ==
    /\ pc = "tables"
    /\ DiffComputed
    /\ is_empty(only_in_1)
    /\ ~HasLayer("Only in 1st")
    /\ only_in_2.type = "MultiPolygon"
    /\ HasLayer("Only in 2nd")

PolygonalArea(m) == IF Polygonal(m) THEN geodetic_area(m) ELSE 0

\* C8: the geodetic area of a collection is the sum of the areas of its
\* polygonal members, so a geometry with a polygonal part of positive area
\* never has area 0.
C8_CollectionArea ==
    measured.done =>
        /\ geometry.type = "GeometryCollection" =>
              measured.area =
                  SumSeq([i \in 1..Len(geometry.geoms) |->
                             PolygonalArea(geometry.geoms[i])])
        /\ (/\ measured.parts >= 1
            /\ \E i \in 1..Len(geometry.geoms) : PolygonalArea(geometry.geoms[i]) > 0)
              => measured.area # 0

FeatureArea(r) == IF use_acres THEN r.area_acres ELSE r.area_m2

\* the sum of a column over the rows of a frame whose flag is true
EnabledSum(rows, col) ==
    SumSeq([i \in 1..Len(rows) |->
               IF ~rows[i].enabled THEN 0
               ELSE IF col = "area" THEN FeatureArea(rows[i]) ELSE rows[i][col]])

\* C9: the totals line of a table is the sum of area, parts and holes of the
\* features whose flag is true once the edit is applied.
C9_TotalsOfVisible ==
    \A j \in 1..Len(totals) :
        totals[j] = [source |-> gdfs[j][1].source,
                     area   |-> EnabledSum(gdfs[j], "area"),
                     parts  |-> EnabledSum(gdfs[j], "parts"),
                     holes  |-> EnabledSum(gdfs[j], "holes")]

AllEnabled(k) == \A i \in 1..Len(gdfs[k]) : gdfs[k][i].enabled

\* C10: in every run the flags are all true until the run's area tables write
\* them, so the map's loop never takes its skip branch.
C10_EnabledWhenDrawn ==
    /\ \A j \in 1..Len(events) : events[j].op # "skip"
    /\ pc \in {"process", "loaded", "layered"} =>
          \A k \in 1..Len(gdfs) : AllEnabled(k)
    /\ pc = "tables" => \A k \in file_idx..Len(gdfs) : AllEnabled(k)

\* a second run draws a feature the user unticked in the first
C10_Witness ==
    /\ pc = "layered"
    /\ runs = 2
    /\ \E id \in vis_off : \E i \in 1..Len(layers) : layers[i] = Layer("poly", id)

\* C6: areas taken from EPSG:3857 come after the warning that names the
\* fallback to it, and a file EPSG:6933 succeeds for draws no warning.
C6_WarnedBeforeMercator ==
    /\ \A j \in 1..Len(events) :
          (events[j].op = "area" /\ events[j].arg = "EPSG:3857") =>
              \E i \in 1..(j - 1) :
                  events[i] = Ev(events[j].file, "warning", W3857, "")
    /\ \A f \in Processed :
          (\E j \in 1..Len(events) :
              events[j] = Ev(f, "to_crs", "EPSG:6933", "ok")) => ~HasOp(f, "warning")

\* a file whose areas come from EPSG:3857
C6_Witness ==
    \E j \in 1..Len(events) : events[j].op = "area" /\ events[j].arg = "EPSG:3857"

====
